---- MODULE Spec2Model ----
(***************************************************************************)
(* A model of the contig packing library: the linear cursor allocator      *)
(* (contig-core TakeCursor), the sizing functions and views of the         *)
(* packable adapters (scalar, Vec3, Dyn<[T]>), and the layout/view code    *)
(* that #[contig] generates for a record (contig-derive).                  *)
(*                                                                         *)
(* Conventions.  Option<T>: <<>> is None, <<v>> is Some(v).  A range a..b  *)
(* is the pair <<a, b>> (half open).  A fallible or panicking computation  *)
(* yields a record whose tag is "Ok" or "panic".  usize is UsizeBits wide. *)
(***************************************************************************)
EXTENDS Integers, Sequences, FiniteSets, TLC

\* ---------------------------------------------------------------- bounds
\* Width of usize in the model (the real targets have 32 or 64).
UsizeBits == 4
\* Largest "ordinary" request handed to take_range.
MaxTake == 3
\* Largest number of take_range calls on one cursor.
MaxCalls == 4

MaxUsize == 2^UsizeBits - 1
UsizeModulus == 2^UsizeBits

VARIABLES
    debug_assertions,   \* the build: TRUE for a dev profile, FALSE for release
    cursor,             \* TakeCursor { idx }
    cur_state,          \* "live", "finished" (consumed by finish), "panicked"
    cur_ranges,         \* the ranges take_range has returned, in call order
    cur_reqs,           \* the n of each call that returned a range
    cur_last,           \* the last cursor call: [op, n, start, tag]
    cur_total,          \* what finish() returned (<<>> before it is called)
    sz_in,              \* a sizing call: [op, ty, cfg] or [op, ty, args]
    sz_out,             \* its outcome (<<>> before the call, <<result>> after)
    vw_ty,              \* the packable type whose layout the views are built from
    vw_cfg,             \* its configuration
    vw_layout,          \* the layout computed from vw_cfg
    buffer,             \* the caller's buffer, vec![0; layout.len()], positions from 0
    written,            \* per coordinate, the value last written there (0: never)
    vw_fault,           \* TRUE once a write through the mutable views panicked
    probe,              \* the last get(i) / get_mut(i) tried on a dynamic-array view
    call_in,            \* a single call on given arguments: [op, ...]
    call_out            \* its outcome (<<>> before the call, <<result>> after)

cursorVars == <<cursor, cur_state, cur_ranges, cur_reqs, cur_last, cur_total>>
sizingVars == <<sz_in, sz_out>>
viewVars == <<vw_ty, vw_cfg, vw_layout, buffer, written, vw_fault, probe>>
callVars == <<call_in, call_out>>
vars == <<debug_assertions, cursorVars, sizingVars, viewVars, callVars>>

\* ---------------------------------------------------------------- helpers
Ok(v) == [tag |-> "Ok", val |-> v]
Panic(m) == [tag |-> "panic", val |-> m]

RangeSet(r) == {i \in 0..MaxUsize : r[1] <= i /\ i < r[2]}
RangeLen(r) == r[2] - r[1]

RECURSIVE SumSeq(_)
SumSeq(s) == IF s = <<>> THEN 0 ELSE Head(s) + SumSeq(Tail(s))

\* ---------------------------------------------------------------- TakeCursor
\* TakeCursor::new
TakeCursor_new == [idx |-> 0]

\* A plausible slip: the returned range is right but the cursor is set to n
\* instead of start + n.
take_range_no_accumulate(c, n) ==
    LET start == c.idx
    IN  IF start + n > MaxUsize
        THEN Panic("overflow in TakeCursor::take_range")
        ELSE Ok([cursor |-> [idx |-> n], range |-> <<start, start + n>>])

\* A plausible slip: the returned range starts at 0 instead of at the
\* cursor's index.
take_range_from_zero(c, n) ==
    LET start == c.idx
    IN  IF start + n > MaxUsize
        THEN Panic("overflow in TakeCursor::take_range")
        ELSE Ok([cursor |-> [idx |-> start + n], range |-> <<0, start + n>>])

\* TakeCursor::take_range: checked_add(...).expect(...) panics on overflow,
\* before idx is assigned; otherwise idx advances and start..idx is returned.
take_range(c, n) ==
    LET start == c.idx
    IN  IF start + n > MaxUsize
        THEN Panic("overflow in TakeCursor::take_range")
        ELSE Ok([cursor |-> [idx |-> start + n], range |-> <<start, start + n>>])

\* TakeCursor::finish
finish(c) == c.idx

\* ---------------------------------------------------------------- cursor actions
\* No sizing call and no view in progress.
NoSizing == sz_in = <<>> /\ sz_out = <<>>
NoCall == call_in = <<>> /\ call_out = <<>>
NoViews ==
    /\ vw_ty = <<>> /\ vw_cfg = <<>> /\ vw_layout = <<>> /\ buffer = <<>>
    /\ written = <<>> /\ vw_fault = FALSE /\ probe = <<>>
FreshCursor ==
    /\ cursor = TakeCursor_new
    /\ cur_state = "live"
    /\ cur_ranges = <<>>
    /\ cur_reqs = <<>>
    /\ cur_last = [op |-> "new", n |-> 0, start |-> 0, tag |-> "Ok"]
    /\ cur_total = <<>>

TakeSizes == (0..MaxTake) \cup {MaxUsize \div 2 + 1, MaxUsize}

InitCursor ==
    /\ debug_assertions \in BOOLEAN
    /\ NoCall
    /\ FreshCursor
    /\ NoSizing
    /\ NoViews

\* A further layout construction starts from a fresh cursor.
NewCursor ==
    /\ cur_state # "live"
    /\ cursor' = TakeCursor_new
    /\ cur_state' = "live"
    /\ cur_ranges' = <<>>
    /\ cur_reqs' = <<>>
    /\ cur_last' = [op |-> "new", n |-> 0, start |-> 0, tag |-> "Ok"]
    /\ cur_total' = <<>>
    /\ UNCHANGED <<debug_assertions, sizingVars, viewVars, callVars>>

TakeRange(n) ==
    /\ cur_state = "live"
    /\ Len(cur_ranges) < MaxCalls
    /\ LET r == take_range(cursor, n)
       IN  /\ cur_last' = [op |-> "take_range", n |-> n, start |-> cursor.idx, tag |-> r.tag]
           /\ IF r.tag = "Ok"
              THEN /\ cursor' = r.val.cursor
                   /\ cur_ranges' = Append(cur_ranges, r.val.range)
                   /\ cur_reqs' = Append(cur_reqs, n)
                   /\ UNCHANGED cur_state
              ELSE /\ cur_state' = "panicked"
                   /\ UNCHANGED <<cursor, cur_ranges, cur_reqs>>
    /\ UNCHANGED <<cur_total, debug_assertions, sizingVars, viewVars, callVars>>

Finish ==
    /\ cur_state = "live"
    /\ cur_total' = <<finish(cursor)>>
    /\ cur_state' = "finished"
    /\ cur_last' = [op |-> "finish", n |-> 0, start |-> cursor.idx, tag |-> "Ok"]
    /\ UNCHANGED <<cursor, cur_ranges, cur_reqs, debug_assertions, sizingVars, viewVars, callVars>>

NextCursor ==
    \/ \E n \in TakeSizes : TakeRange(n)
    \/ Finish
    \/ NewCursor

SpecCursor == InitCursor /\ [][NextCursor]_vars

\* ---------------------------------------------------------------- cursor claims
\* C2: the ranges take_range returned on one cursor are pairwise disjoint,
\* each starts where the previous one ends (the first at 0) and has the
\* requested length, and finish() returns T = n1 + ... + nk with the union
\* of the ranges being exactly [0, T).
C2_CursorRangesTile ==
    /\ Len(cur_reqs) = Len(cur_ranges)
    /\ \A k \in 1..Len(cur_ranges) :
          /\ cur_ranges[k][1] = (IF k = 1 THEN 0 ELSE cur_ranges[k - 1][2])
          /\ RangeLen(cur_ranges[k]) = cur_reqs[k]
    /\ \A j, k \in 1..Len(cur_ranges) :
          j < k => RangeSet(cur_ranges[j]) \cap RangeSet(cur_ranges[k]) = {}
    /\ cur_state = "finished" =>
          /\ cur_total = <<SumSeq(cur_reqs)>>
          /\ UNION {RangeSet(cur_ranges[k]) : k \in 1..Len(cur_ranges)}
                = {i \in 0..MaxUsize : i < cur_total[1]}

C2_Witness ==
    /\ cur_state = "finished"
    /\ Len(cur_ranges) >= 3
    /\ cur_reqs[1] > 0 /\ cur_reqs[2] > 0 /\ cur_reqs[3] > 0
    /\ cur_total = <<cur_reqs[1] + cur_reqs[2] + cur_reqs[3]>>

\* C22: one take_range(n) on a cursor at index s with s + n not
\* overflowing returns exactly [s, s + n) and leaves the cursor at s + n;
\* take_range(0) returns the empty range [s, s) and leaves the cursor where
\* it was; finish() on a fresh cursor returns 0.
C22_SingleTakeRange ==
    /\ (cur_last.op = "take_range" /\ cur_last.start + cur_last.n <= MaxUsize) =>
          /\ cur_last.tag = "Ok"
          /\ cur_state = "live"
          /\ cur_ranges # <<>>
          /\ cur_ranges[Len(cur_ranges)] = <<cur_last.start, cur_last.start + cur_last.n>>
          /\ cursor.idx = cur_last.start + cur_last.n
          /\ cur_last.n = 0 =>
                /\ RangeSet(cur_ranges[Len(cur_ranges)]) = {}
                /\ cursor.idx = cur_last.start
    /\ (cur_last.op = "finish" /\ cur_ranges = <<>>) =>
          /\ cur_last.start = 0
          /\ cur_total = <<0>>
    /\ TakeCursor_new.idx = 0 /\ finish(TakeCursor_new) = 0

\* take_range(0) on a cursor that had already advanced to 3.
C22_Witness ==
    /\ cur_last.op = "take_range"
    /\ cur_last.n = 0
    /\ cur_last.start = 3
    /\ cur_last.tag = "Ok"
    /\ cursor.idx = 3
    /\ cur_ranges[Len(cur_ranges)] = <<3, 3>>

\* C3: a take_range(n) whose start + n exceeds the maximum index ends in a
\* reported, recoverable Overflow error (not a wrap, not a panic) and
\* returns no range.
C3_OverflowIsReportedError ==
    (cur_last.op = "take_range" /\ cur_last.start + cur_last.n > MaxUsize)
        => (cur_last.tag = "Err" /\ cur_state = "live")

\* ================================================================ sizing
\* Bounds of the sizing inputs.
\* Largest "ordinary" element count of a dynamic array.
MaxCount == 2
\* Largest number of fields of a generated record.
MaxFields == 2
MaxCells == 6
MaxDim == 3

\* ---------------------------------------------------------------- DynArgs
DynArgs_default == [len |-> <<>>, shape |-> <<>>]
with_len(n) == [len |-> <<n>>, shape |-> <<>>]
with_shape(rows, cols) == [len |-> <<>>, shape |-> <<<<rows, cols>>>>]

\* ---------------------------------------------------------------- packable types
\* A type is a tree: f64, Vec3<f64>, Dyn<[T]>, or a #[contig] record.
\* [k, sub]: sub is <<T>> for Dyn<[T]>, the field types for a record.
F64 == [k |-> "f64", sub |-> <<>>]
Vec3 == [k |-> "Vec3", sub |-> <<>>]
Dyn(T) == [k |-> "Dyn", sub |-> <<T>>]
Rec(fs) == [k |-> "Rec", sub |-> fs]
ElemOf(T) == T.sub[1]
\* The nalgebra adapters: NaDVector<F>, NaDMatrix<F> sized at run time,
\* NaSVector<F, N>, NaSMatrix<F, R, C> with their dimensions in the type.
NaDVector == [k |-> "NaDVector", sub |-> <<>>]
NaDMatrix == [k |-> "NaDMatrix", sub |-> <<>>]
NaSVector(N) == [k |-> "NaSVector", sub |-> <<>>, dims |-> <<N>>]
NaSMatrix(R, C) == [k |-> "NaSMatrix", sub |-> <<>>, dims |-> <<R, C>>]

\* A configuration is [len, sub]: () is UnitConfig, DynArrayConfig { len, elem }
\* has sub = <<elem>>, a record's <Name>Cfg has one sub-configuration per field.
UnitConfig == [len |-> 0, sub |-> <<>>]
DynArrayConfig(n, elem) == [len |-> n, sub |-> <<elem>>]
RecCfg(fs) == [len |-> 0, sub |-> fs]

\* A layout value: the cached footprint, and what its views need.
LayoutOf(kind, n, args, ea, offs, lays) ==
    [k |-> kind, len |-> n, args |-> args, elem_args |-> ea, offs |-> offs, lays |-> lays]
\* struct Link { mass: f64, pos: Vec3<f64> }
Link == Rec(<<F64, Vec3>>)

f64_STATIC_LEN == 1
Vec3_STATIC_LEN == 3
Vec3_len == 3

\* ---------------------------------------------------------------- usize arithmetic
\* a * b on usize: a dev build panics on overflow, a release build wraps.
usize_mul(a, b) ==
    IF a * b <= MaxUsize THEN Ok(a * b)
    ELSE IF debug_assertions THEN Panic("attempt to multiply with overflow")
    ELSE Ok((a * b) % UsizeModulus)

\* ---------------------------------------------------------------- sizing
RECURSIVE T_dyn_len(_, _), Contig_layout(_, _), from_config_fields(_, _, _, _, _, _)

\* <f64 as DynSpec>::dyn_len
f64_dyn_len(args) == Ok(f64_STATIC_LEN)

\* <Vec3<F> as DynSpec>::dyn_len
Vec3_dyn_len(args) == Ok(Vec3_STATIC_LEN)

\* <NaDVector<F> as DynSpec>::dyn_len
NaDVector_dyn_len(args) ==
    IF args.len = <<>> THEN Panic("NaDVector requires len") ELSE Ok(args.len[1])

\* <NaDMatrix<F> as DynSpec>::dyn_len
NaDMatrix_dyn_len(args) ==
    IF args.shape = <<>> THEN Panic("NaDMatrix requires shape")
    ELSE usize_mul(args.shape[1][1], args.shape[1][2])

\* <Dyn<[T]> as DynSpec>::dyn_len: the element is sized with default args.
Dyn_dyn_len(E, args) ==
    IF args.len = <<>> THEN Panic("Dyn<[T]> requires len")
    ELSE LET n == args.len[1]
         IN  IF n = 0 THEN Ok(0)
             ELSE LET e == T_dyn_len(E, DynArgs_default)
                  IN  IF e.tag # "Ok" THEN e ELSE usize_mul(n, e.val)

\* A plausible slip: the count is dropped from the footprint.
Dyn_dyn_len_with_elem_no_count(E, args, elem_args) ==
    IF args.len = <<>> THEN Panic("Dyn<[T]> requires len")
    ELSE LET n == args.len[1]
         IN  IF n = 0 THEN Ok(0) ELSE T_dyn_len(E, elem_args)

\* <Dyn<[T]> as DynSpec>::dyn_len_with_elem
Dyn_dyn_len_with_elem(E, args, elem_args) ==
    IF args.len = <<>> THEN Panic("Dyn<[T]> requires len")
    ELSE LET n == args.len[1]
         IN  IF n = 0 THEN Ok(0)
             ELSE LET e == T_dyn_len(E, elem_args)
                  IN  IF e.tag # "Ok" THEN e ELSE usize_mul(n, e.val)

\* Configuration of a record all of whose fields take no runtime sizing.
RECURSIVE UnitCfg(_)
UnitCfg(T) ==
    IF T.k = "Rec" THEN RecCfg([i \in 1..Len(T.sub) |-> UnitCfg(T.sub[i])]) ELSE UnitConfig

\* Contig::len of a layout value.
Contig_len(lay) == lay.len

\* A record used as the element of Dyn<[T]>: its footprint is the len of its
\* generated layout (no runtime arguments reach its fields).
Rec_dyn_len(T, args) ==
    LET r == Contig_layout(T, UnitCfg(T))
    IN  IF r.tag = "Ok" THEN Ok(Contig_len(r.val)) ELSE r

\* T::dyn_len, dispatched on the element type.
T_dyn_len(T, args) ==
    CASE T.k = "f64" -> f64_dyn_len(args)
      [] T.k = "Vec3" -> Vec3_dyn_len(args)
      [] T.k = "Dyn" -> Dyn_dyn_len(ElemOf(T), args)
      [] T.k = "Rec" -> Rec_dyn_len(T, args)
      [] T.k = "NaDVector" -> NaDVector_dyn_len(args)
      [] T.k = "NaDMatrix" -> NaDMatrix_dyn_len(args)

\* The element arguments a configuration {len, elem} hands to the adapter:
\* DynArgs carries one len, so only the element's own count gets through.
ElemArgsOf(E, ecfg) == IF E.k = "Dyn" THEN with_len(ecfg.len) ELSE DynArgs_default

\* Contig::layout for Dyn<[T]> with configuration {len, elem}: sized by the
\* adapter's dyn_len_with_elem, the arguments cached for the views.
Dyn_layout(T, cfg) ==
    LET args == with_len(cfg.len)
        ea == ElemArgsOf(ElemOf(T), cfg.sub[1])
        r == Dyn_dyn_len_with_elem(ElemOf(T), args, ea)
    IN  IF r.tag = "Ok"
        THEN Ok(LayoutOf("Dyn", r.val, args, ea, <<>>, <<>>))
        ELSE r

\* Contig::layout for a scalar: a marker of one element.
f64_layout(cfg) ==
    Ok(LayoutOf("f64", f64_STATIC_LEN, DynArgs_default, DynArgs_default, <<>>, <<>>))

\* <Vec3<F> as Contig>::layout and len
Vec3_layout(cfg) ==
    Ok(LayoutOf("Vec3", Vec3_len, DynArgs_default, DynArgs_default, <<>>, <<>>))

\* A plausible slip: every field is allocated from a fresh cursor, so each
\* offset range starts at 0.
from_config_fields_fresh_cursor(fields, cfg, i, c, offs, lays) ==
    IF i > Len(fields)
    THEN Ok(LayoutOf("Rec", finish(c), DynArgs_default, DynArgs_default, offs, lays))
    ELSE LET lay == Contig_layout(fields[i], cfg[i])
         IN  IF lay.tag # "Ok" THEN lay
             ELSE LET r == take_range(TakeCursor_new, Contig_len(lay.val))
                  IN  IF r.tag # "Ok" THEN r
                      ELSE from_config_fields(fields, cfg, i + 1, r.val.cursor,
                                              Append(offs, r.val.range),
                                              Append(lays, lay.val))

\* A plausible slip: a field whose layout fails is skipped and the layout
\* is built from the remaining fields.
from_config_fields_skip_failed(fields, cfg, i, c, offs, lays) ==
    IF i > Len(fields)
    THEN Ok(LayoutOf("Rec", finish(c), DynArgs_default, DynArgs_default, offs, lays))
    ELSE LET lay == Contig_layout(fields[i], cfg[i])
         IN  IF lay.tag # "Ok"
             THEN from_config_fields(fields, cfg, i + 1, c, offs, lays)
             ELSE LET r == take_range(c, Contig_len(lay.val))
                  IN  IF r.tag # "Ok" THEN r
                      ELSE from_config_fields(fields, cfg, i + 1, r.val.cursor,
                                              Append(offs, r.val.range),
                                              Append(lays, lay.val))

\* The generated layout builders, field i onward: layout(&cfg.f)? then
\* take_range(len(&layout_f)); after the last field, len = finish().
from_config_fields(fields, cfg, i, c, offs, lays) ==
    IF i > Len(fields)
    THEN Ok(LayoutOf("Rec", finish(c), DynArgs_default, DynArgs_default, offs, lays))
    ELSE LET lay == Contig_layout(fields[i], cfg[i])
         IN  IF lay.tag # "Ok" THEN lay
             ELSE LET r == take_range(c, Contig_len(lay.val))
                  IN  IF r.tag # "Ok" THEN r
                      ELSE from_config_fields(fields, cfg, i + 1, r.val.cursor,
                                              Append(offs, r.val.range),
                                              Append(lays, lay.val))

\* <Record>Layout::from_config
from_config(T, cfg) == from_config_fields(T.sub, cfg.sub, 1, TakeCursor_new, <<>>, <<>>)

\* Contig::layout, dispatched on the type.
Contig_layout(T, cfg) ==
    CASE T.k = "f64" -> f64_layout(cfg)
      [] T.k = "Vec3" -> Vec3_layout(cfg)
      [] T.k = "Dyn" -> Dyn_layout(T, cfg)
      [] T.k = "Rec" -> from_config(T, cfg)

\* ---------------------------------------------------------------- sizing inputs
Counts == (0..MaxCount) \cup {MaxUsize \div 2 + 1}

\* The configurations of a type whose counts are drawn from C.
RECURSIVE CfgsOver(_, _), CfgsOfFields(_, _)
CfgsOver(T, C) ==
    CASE T.k = "Dyn" -> {DynArrayConfig(n, c) : n \in C, c \in CfgsOver(ElemOf(T), C)}
      [] T.k = "Rec" -> {RecCfg(fs) : fs \in CfgsOfFields(T.sub, C)}
      [] OTHER -> {UnitConfig}
CfgsOfFields(fs, C) ==
    IF fs = <<>> THEN {<<>>}
    ELSE {<<c>> \o rest : c \in CfgsOver(Head(fs), C), rest \in CfgsOfFields(Tail(fs), C)}
CfgsOf(T) == CfgsOver(T, Counts)

FieldTypes == {F64, Vec3, Dyn(F64), Dyn(Link)}
RecordTypes ==
    {Rec(fs) : fs \in UNION {[1..n -> FieldTypes] : n \in 1..MaxFields}}
    \cup {Rec(<<Dyn(Dyn(F64))>>), Rec(<<F64, Dyn(Dyn(F64))>>)}
ArrayTypes == {Dyn(F64), Dyn(Vec3), Dyn(Link), Dyn(Dyn(F64)), Dyn(Dyn(Vec3)),
               Dyn(Dyn(Dyn(F64)))}
ArgsSet == {DynArgs_default} \cup {with_len(n) : n \in Counts}


SizingInputs ==
    UNION {{[op |-> "layout", ty |-> T, cfg |-> c] : c \in CfgsOf(T)}
             : T \in ArrayTypes \cup {F64, Vec3}}
    \cup UNION {{[op |-> "from_config", ty |-> T, cfg |-> c] : c \in CfgsOf(T)}
             : T \in RecordTypes}
    \cup {[op |-> "dyn_len", ty |-> T, args |-> a] : T \in ArrayTypes \cup {F64, Vec3, Link},
                                                     a \in ArgsSet}
    \cup {[op |-> "dyn_len", ty |-> T, args |-> a] : T \in {NaDVector, NaDMatrix, Dyn(NaDVector), Dyn(NaDMatrix)},
                                                     a \in ArgsSet \cup {with_shape(r, c) : r, c \in Counts}}

InitSizing ==
    /\ debug_assertions \in BOOLEAN
    /\ NoCall
    /\ FreshCursor
    /\ NoViews
    /\ sz_in \in SizingInputs
    /\ sz_out = <<>>

\* Contig::layout of an array or leaf type on a configuration.
CallLayout ==
    /\ sz_out = <<>>
    /\ sz_in.op = "layout"
    /\ sz_out' = <<Contig_layout(sz_in.ty, sz_in.cfg)>>
    /\ UNCHANGED <<debug_assertions, cursorVars, sz_in, viewVars, callVars>>

\* <Record>Layout::from_config on a record configuration.
CallFromConfig ==
    /\ sz_out = <<>>
    /\ sz_in.op = "from_config"
    /\ sz_out' = <<from_config(sz_in.ty, sz_in.cfg)>>
    /\ UNCHANGED <<debug_assertions, cursorVars, sz_in, viewVars, callVars>>

\* T::dyn_len called with the node's own DynArgs.
CallDynLen ==
    /\ sz_out = <<>>
    /\ sz_in.op = "dyn_len"
    /\ sz_out' = <<T_dyn_len(sz_in.ty, sz_in.args)>>
    /\ UNCHANGED <<debug_assertions, cursorVars, sz_in, viewVars, callVars>>

NextSizing == CallLayout \/ CallFromConfig \/ CallDynLen

SpecSizing == InitSizing /\ [][NextSizing]_vars

\* ---------------------------------------------------------------- sizing claims
\* The reference footprint of a type under a configuration: 1 for a scalar,
\* 3 for the 3-group, count * element for a dynamic array, the sum of the
\* fields for a record.
RECURSIVE RefLen(_, _), RefLenFields(_, _)
RefLen(T, cfg) ==
    CASE T.k = "f64" -> 1
      [] T.k = "Vec3" -> 3
      [] T.k = "Dyn" -> cfg.len * RefLen(ElemOf(T), cfg.sub[1])
      [] T.k = "Rec" -> RefLenFields(T.sub, cfg.sub)
RefLenFields(fs, cs) ==
    IF fs = <<>> THEN 0
    ELSE RefLen(Head(fs), Head(cs)) + RefLenFields(Tail(fs), Tail(cs))

\* Number of Dyn<[..]> levels at the top of a type.
RECURSIVE DynDepth(_)
DynDepth(T) == IF T.k = "Dyn" THEN 1 + DynDepth(ElemOf(T)) ELSE 0

\* The counts of a nested dynamic-array configuration, outermost first.
RECURSIVE NestedCounts(_, _)
NestedCounts(T, cfg) ==
    IF T.k = "Dyn" THEN <<cfg.len>> \o NestedCounts(ElemOf(T), cfg.sub[1]) ELSE <<>>

SizingDone == sz_out # <<>>
SizingResult == sz_out[1]

\* C1: in every layout from_config builds, field i's offset range starts
\* where field i-1's ends (the first at 0) and is as long as the field's
\* footprint, the ranges are pairwise disjoint, and their union is exactly
\* [0, layout.len): zero-length fields included.
C1_RecordOffsetsTile ==
    (SizingDone /\ sz_in.op = "from_config" /\ SizingResult.tag = "Ok") =>
        LET L == SizingResult.val
            n == Len(sz_in.ty.sub)
        IN  /\ Len(L.offs) = n /\ Len(L.lays) = n
            /\ \A i \in 1..n :
                 /\ L.offs[i][1] = (IF i = 1 THEN 0 ELSE L.offs[i - 1][2])
                 /\ RangeLen(L.offs[i]) = L.lays[i].len
                 /\ RangeLen(L.offs[i]) >= 0
            /\ \A i, j \in 1..n :
                 i < j => RangeSet(L.offs[i]) \cap RangeSet(L.offs[j]) = {}
            /\ UNION {RangeSet(L.offs[i]) : i \in 1..n} = {x \in 0..MaxUsize : x < L.len}

\* A two-field layout whose first field is empty and whose second is not.
C1_Witness ==
    /\ SizingDone /\ sz_in.op = "from_config" /\ SizingResult.tag = "Ok"
    /\ Len(SizingResult.val.offs) = 2
    /\ SizingResult.val.offs[1] = <<0, 0>>
    /\ SizingResult.val.offs[2] = <<0, 3>>
    /\ SizingResult.val.len = 3

InvalidArgs(T, args) ==
    CASE T.k \in {"Dyn", "NaDVector"} -> args.len = <<>>
      [] T.k = "NaDMatrix" -> args.shape = <<>>
      [] OTHER -> FALSE

\* C14: sizing an adapter with a structurally invalid configuration yields
\* the InvalidSize error value (with a reason) as the call's result, not a
\* panic.
C14_InvalidConfigIsInvalidSize ==
    (SizingDone /\ sz_in.op = "dyn_len" /\ InvalidArgs(sz_in.ty, sz_in.args)) =>
        /\ SizingResult.tag = "Err"
        /\ SizingResult.val.kind = "InvalidSize"

\* C4: a dynamic array whose count * elem_len exceeds the maximum index
\* makes the footprint computation fail with LayoutError::Overflow.
C4_OverflowingProductIsError ==
    (SizingDone /\ sz_in.op = "layout" /\ sz_in.ty.k = "Dyn" /\ DynDepth(sz_in.ty) <= 2
       /\ RefLen(sz_in.ty, sz_in.cfg) > MaxUsize)
        => (SizingResult.tag = "Err" /\ SizingResult.val = "Overflow")

\* C5: on every configuration whose reference footprint is representable,
\* the computed footprint is the reference footprint.
C5_FootprintIsReference ==
    (SizingDone /\ sz_in.op \in {"layout", "from_config"}
       /\ RefLen(sz_in.ty, sz_in.cfg) <= MaxUsize)
        => (SizingResult.tag = "Ok" /\ SizingResult.val.len = RefLen(sz_in.ty, sz_in.cfg))

\* C9: a dynamic array nested three levels deep with counts n1, n2, n3 is
\* sized successfully, as n1 * n2 * n3 times the leaf footprint.
C9_ThreeLevelsAreSized ==
    (SizingDone /\ sz_in.op = "layout" /\ DynDepth(sz_in.ty) >= 3
       /\ RefLen(sz_in.ty, sz_in.cfg) <= MaxUsize)
        => LET c == NestedCounts(sz_in.ty, sz_in.cfg)
           IN  /\ SizingResult.tag = "Ok"
               /\ SizingResult.val.len = c[1] * c[2] * c[3] * f64_STATIC_LEN

\* ================================================================ views
\* A slice of the buffer is the pair <<lo, hi>> of absolute positions.
SliceLen(b) == b[2] - b[1]

\* A plausible slip: the sub-slice is positioned from the start of memory
\* instead of from the start of the slice it is taken from.
slice_range_from_origin(base, a, b) ==
    IF a > b THEN Panic("slice index starts after its end")
    ELSE IF b > SliceLen(base) THEN Panic("range end index out of range for slice")
    ELSE Ok(<<a, b>>)

\* &base[a..b]
slice_range(base, a, b) ==
    IF a > b THEN Panic("slice index starts after its end")
    ELSE IF b > SliceLen(base) THEN Panic("range end index out of range for slice")
    ELSE Ok(<<base[1] + a, base[1] + b>>)

\* &base[i]
slice_index(base, i) ==
    IF i >= SliceLen(base) THEN Panic("index out of bounds") ELSE Ok(base[1] + i)

\* a + b on usize: a dev build panics on overflow, a release build wraps.
usize_add(a, b) ==
    IF a + b <= MaxUsize THEN Ok(a + b)
    ELSE IF debug_assertions THEN Panic("attempt to add with overflow")
    ELSE Ok((a + b) % UsizeModulus)

NoLayout == LayoutOf("none", 0, DynArgs_default, DynArgs_default, <<>>, <<>>)

\* A view value.  k is "ref" (&F / &mut F), "Vec3View", "DynArrayView" or
\* "RecView"; ty is the element type of a DynArrayView and the record type
\* of a RecView; base is the borrowed slice.
ViewOf(kind, T, base, count, ea, span, lay) ==
    [k |-> kind, ty |-> T, base |-> base, count |-> count, elem_args |-> ea,
     elem_span |-> span, layout |-> lay]
RefView(addr) == ViewOf("ref", F64, <<addr, addr + 1>>, 0, DynArgs_default, 0, NoLayout)
Vec3ViewOf(slice) == ViewOf("Vec3View", Vec3, slice, 0, DynArgs_default, 0, NoLayout)
DynArrayViewOf(E, base, count, ea, span) ==
    ViewOf("DynArrayView", E, base, count, ea, span, NoLayout)
RecViewOf(T, base, lay) == ViewOf("RecView", T, base, 0, DynArgs_default, 0, lay)

\* ---------------------------------------------------------------- const views
\* <f64 as DynSpec>::cview -> <f64 as Spec>::cview
f64_cview(buf, args) ==
    IF debug_assertions /\ SliceLen(buf) # 1 THEN Panic("assertion failed: buf.len() == 1")
    ELSE LET a == slice_index(buf, 0)
         IN  IF a.tag # "Ok" THEN a ELSE Ok(RefView(a.val))

\* <Vec3<F> as DynSpec>::cview -> <Vec3<F> as Spec>::cview (contig-core)
Vec3_cview(buf, args) ==
    IF debug_assertions /\ SliceLen(buf) # 3 THEN Panic("assertion failed: buf.len() == 3")
    ELSE Ok(Vec3ViewOf(buf))

\* <Vec3<F> as Contig>::view (contig-demo)
Vec3_view(lay, buf) ==
    IF debug_assertions /\ SliceLen(buf) < 3 THEN Panic("assertion failed: buf.len() >= 3")
    ELSE LET s == slice_range(buf, 0, 3)
         IN  IF s.tag # "Ok" THEN s ELSE Ok(Vec3ViewOf(s.val))

\* A plausible slip: x and z are exchanged in the const view.
Vec3View_component_reversed(v, c) ==
    LET a == slice_index(v.base, 2 - c)
    IN  IF a.tag # "Ok" THEN a ELSE Ok(RefView(a.val))

\* Vec3View::x / y / z: component c is &self.slice[c]
Vec3View_component(v, c) ==
    LET a == slice_index(v.base, c)
    IN  IF a.tag # "Ok" THEN a ELSE Ok(RefView(a.val))

\* A plausible slip: the inferred element span is the whole buffer length.
Dyn_cview_span_is_len(E, buf, args) ==
    IF args.len = <<>> THEN Panic("Dyn<[T]> requires len")
    ELSE Ok(DynArrayViewOf(E, buf, args.len[1], DynArgs_default, SliceLen(buf)))

\* <Dyn<[T]> as DynSpec>::cview: the element span is inferred as len / count.
Dyn_cview(E, buf, args) ==
    IF args.len = <<>> THEN Panic("Dyn<[T]> requires len")
    ELSE LET count == args.len[1]
         IN  IF count = 0 THEN Ok(DynArrayViewOf(E, buf, count, DynArgs_default, 0))
             ELSE IF debug_assertions /\ SliceLen(buf) % count # 0
                  THEN Panic("assertion failed: buf.len() % count == 0")
                  ELSE Ok(DynArrayViewOf(E, buf, count, DynArgs_default,
                                         SliceLen(buf) \div count))

\* <Dyn<[T]> as DynSpec>::cview_full: the element span is T::dyn_len(elem_args).
Dyn_cview_full(E, buf, args, elem_args) ==
    IF args.len = <<>> THEN Panic("Dyn<[T]> requires len")
    ELSE LET count == args.len[1]
         IN  IF count = 0 THEN Ok(DynArrayViewOf(E, buf, count, elem_args, 0))
             ELSE LET span == T_dyn_len(E, elem_args)
                      total == usize_mul(count, span.val)
                  IN  IF span.tag # "Ok" THEN span
                      ELSE IF debug_assertions /\ total.tag # "Ok" THEN total
                      ELSE IF debug_assertions /\ SliceLen(buf) # total.val
                           THEN Panic("assertion failed: buf.len() == count * span")
                           ELSE Ok(DynArrayViewOf(E, buf, count, elem_args, span.val))

\* <Name>Layout::cview
Layout_cview(T, lay, base) ==
    IF ~(SliceLen(base) >= lay.len) THEN Panic("buffer too small for layout")
    ELSE Ok(RecViewOf(T, base, lay))

\* A record as the element of Dyn<[T]>: T::cview builds the record's
\* generated const view over the element slice.
Rec_cview(T, buf, args) ==
    LET lay == Contig_layout(T, UnitCfg(T))
    IN  IF lay.tag # "Ok" THEN lay ELSE Layout_cview(T, lay.val, buf)

\* T::cview, dispatched on the element type.
T_cview(T, buf, args) ==
    CASE T.k = "f64" -> f64_cview(buf, args)
      [] T.k = "Vec3" -> Vec3_cview(buf, args)
      [] T.k = "Dyn" -> Dyn_cview(ElemOf(T), buf, args)
      [] T.k = "Rec" -> Rec_cview(T, buf, args)

\* A plausible slip: the element span is recomputed on every call, from
\* what is left of the buffer after the element's start.
DynArrayCView_get_slice_span_from_rest(v, i) ==
    IF debug_assertions /\ ~(i < v.count) THEN Panic("assertion failed: i < self.count")
    ELSE LET start == usize_mul(i, v.elem_span)
         IN  IF start.tag # "Ok" THEN start
             ELSE slice_range(v.base, start.val, SliceLen(v.base))

\* The slice DynArrayCView::get(i) hands to the element view.
DynArrayCView_get_slice(v, i) ==
    IF debug_assertions /\ ~(i < v.count) THEN Panic("assertion failed: i < self.count")
    ELSE LET span == v.elem_span
             start == usize_mul(i, span)
             end == usize_add(start.val, span)
         IN  IF start.tag # "Ok" THEN start
             ELSE IF end.tag # "Ok" THEN end
             ELSE slice_range(v.base, start.val, end.val)

\* DynArrayCView::len
DynArrayCView_len(v) == v.count

\* DynArrayCView::get
DynArrayCView_get(v, i) ==
    LET s == DynArrayCView_get_slice(v, i)
    IN  IF s.tag # "Ok" THEN s ELSE T_cview(v.ty, s.val, v.elem_args)

\* Contig::view for a scalar: a reference to the single element.
f64_view(lay, buf) == f64_cview(buf, DynArgs_default)

\* Contig::view for Dyn<[T]>: the adapter's view with the cached arguments.
Dyn_view(T, lay, buf) == Dyn_cview_full(ElemOf(T), buf, lay.args, lay.elem_args)

\* Contig::view, dispatched on the type.
Contig_view(T, lay, buf) ==
    CASE T.k = "f64" -> f64_view(lay, buf)
      [] T.k = "Vec3" -> Vec3_view(lay, buf)
      [] T.k = "Dyn" -> Dyn_view(T, lay, buf)
      [] T.k = "Rec" -> Layout_cview(T, lay, buf)

\* <Name>ConstView::<field>: slice the base by the field's range, delegate.
ConstView_field(v, f) ==
    IF ~(f \in 1..Len(v.ty.sub)) THEN Panic("no such field")
    ELSE LET off == v.layout.offs[f]
             s == slice_range(v.base, off[1], off[2])
         IN  IF s.tag # "Ok" THEN s
             ELSE Contig_view(v.ty.sub[f], v.layout.lays[f], s.val)

\* ---------------------------------------------------------------- mutable views
\* <f64 as DynSpec>::mview -> <f64 as Spec>::mview
f64_mview(buf, args) ==
    IF debug_assertions /\ SliceLen(buf) # 1 THEN Panic("assertion failed: buf.len() == 1")
    ELSE LET a == slice_index(buf, 0)
         IN  IF a.tag # "Ok" THEN a ELSE Ok(RefView(a.val))

\* <Vec3<F> as DynSpec>::mview -> <Vec3<F> as Spec>::mview (contig-core)
Vec3_mview(buf, args) ==
    IF debug_assertions /\ SliceLen(buf) # 3 THEN Panic("assertion failed: buf.len() == 3")
    ELSE Ok(Vec3ViewOf(buf))

\* <Vec3<F> as Contig>::view_mut (contig-demo)
Vec3_view_mut(lay, buf) ==
    IF debug_assertions /\ SliceLen(buf) < 3 THEN Panic("assertion failed: buf.len() >= 3")
    ELSE LET s == slice_range(buf, 0, 3)
         IN  IF s.tag # "Ok" THEN s ELSE Ok(Vec3ViewOf(s.val))

\* A plausible slip: the mutable component accessors are shifted by one
\* (x_mut is &mut self.slice[1], ...).
Vec3ViewMut_component_shifted(v, c) ==
    LET a == slice_index(v.base, c + 1)
    IN  IF a.tag # "Ok" THEN a ELSE Ok(RefView(a.val))

\* Vec3ViewMut::x / y / z: component c is &mut self.slice[c]
Vec3ViewMut_component(v, c) ==
    LET a == slice_index(v.base, c)
    IN  IF a.tag # "Ok" THEN a ELSE Ok(RefView(a.val))

\* <Dyn<[T]> as DynSpec>::mview
Dyn_mview(E, buf, args) ==
    IF args.len = <<>> THEN Panic("Dyn<[T]> requires len")
    ELSE LET count == args.len[1]
         IN  IF count = 0 THEN Ok(DynArrayViewOf(E, buf, count, DynArgs_default, 0))
             ELSE IF debug_assertions /\ SliceLen(buf) % count # 0
                  THEN Panic("assertion failed: buf.len() % count == 0")
                  ELSE Ok(DynArrayViewOf(E, buf, count, DynArgs_default,
                                         SliceLen(buf) \div count))

\* <Dyn<[T]> as DynSpec>::mview_full
Dyn_mview_full(E, buf, args, elem_args) ==
    IF args.len = <<>> THEN Panic("Dyn<[T]> requires len")
    ELSE LET count == args.len[1]
         IN  IF count = 0 THEN Ok(DynArrayViewOf(E, buf, count, elem_args, 0))
             ELSE LET span == T_dyn_len(E, elem_args)
                      total == usize_mul(count, span.val)
                  IN  IF span.tag # "Ok" THEN span
                      ELSE IF debug_assertions /\ total.tag # "Ok" THEN total
                      ELSE IF debug_assertions /\ SliceLen(buf) # total.val
                           THEN Panic("assertion failed: buf.len() == count * span")
                           ELSE Ok(DynArrayViewOf(E, buf, count, elem_args, span.val))

\* <Name>Layout::view
Layout_view(T, lay, base) ==
    IF ~(SliceLen(base) >= lay.len) THEN Panic("buffer too small for layout")
    ELSE Ok(RecViewOf(T, base, lay))

\* A record as the element of Dyn<[T]>: T::mview builds the record's
\* generated mutable view over the element slice.
Rec_mview(T, buf, args) ==
    LET lay == Contig_layout(T, UnitCfg(T))
    IN  IF lay.tag # "Ok" THEN lay ELSE Layout_view(T, lay.val, buf)

\* T::mview, dispatched on the element type.
T_mview(T, buf, args) ==
    CASE T.k = "f64" -> f64_mview(buf, args)
      [] T.k = "Vec3" -> Vec3_mview(buf, args)
      [] T.k = "Dyn" -> Dyn_mview(ElemOf(T), buf, args)
      [] T.k = "Rec" -> Rec_mview(T, buf, args)

\* A plausible slip: the element offset is i instead of i * span.
DynArrayMView_get_mut_slice_unscaled(v, i) ==
    IF debug_assertions /\ ~(i < v.count) THEN Panic("assertion failed: i < self.count")
    ELSE LET span == v.elem_span
             end == usize_add(i, span)
         IN  IF end.tag # "Ok" THEN end ELSE slice_range(v.base, i, end.val)

\* The slice DynArrayMView::get_mut(i) hands to the element view.
DynArrayMView_get_mut_slice(v, i) ==
    IF debug_assertions /\ ~(i < v.count) THEN Panic("assertion failed: i < self.count")
    ELSE LET span == v.elem_span
             start == usize_mul(i, span)
             end == usize_add(start.val, span)
         IN  IF start.tag # "Ok" THEN start
             ELSE IF end.tag # "Ok" THEN end
             ELSE slice_range(v.base, start.val, end.val)

\* DynArrayMView::len
DynArrayMView_len(v) == v.count

\* DynArrayMView::get_mut
DynArrayMView_get_mut(v, i) ==
    LET s == DynArrayMView_get_mut_slice(v, i)
    IN  IF s.tag # "Ok" THEN s ELSE T_mview(v.ty, s.val, v.elem_args)

\* Contig::view_mut for a scalar.
f64_view_mut(lay, buf) == f64_mview(buf, DynArgs_default)

\* Contig::view_mut for Dyn<[T]>.
Dyn_view_mut(T, lay, buf) == Dyn_mview_full(ElemOf(T), buf, lay.args, lay.elem_args)

\* Contig::view_mut, dispatched on the type.
Contig_view_mut(T, lay, buf) ==
    CASE T.k = "f64" -> f64_view_mut(lay, buf)
      [] T.k = "Vec3" -> Vec3_view_mut(lay, buf)
      [] T.k = "Dyn" -> Dyn_view_mut(T, lay, buf)
      [] T.k = "Rec" -> Layout_view(T, lay, buf)

\* A plausible slip: the field's slice starts at 0 instead of its offset.
View_field_from_zero(v, f) ==
    IF ~(f \in 1..Len(v.ty.sub)) THEN Panic("no such field")
    ELSE LET off == v.layout.offs[f]
             s == slice_range(v.base, 0, off[2] - off[1])
         IN  IF s.tag # "Ok" THEN s
             ELSE Contig_view_mut(v.ty.sub[f], v.layout.lays[f], s.val)

\* <Name>View::<field>: slice the base by the field's range, delegate.
View_field(v, f) ==
    IF ~(f \in 1..Len(v.ty.sub)) THEN Panic("no such field")
    ELSE LET off == v.layout.offs[f]
             s == slice_range(v.base, off[1], off[2])
         IN  IF s.tag # "Ok" THEN s
             ELSE Contig_view_mut(v.ty.sub[f], v.layout.lays[f], s.val)

\* ---------------------------------------------------------------- coordinates
\* A coordinate is the sequence of accessor arguments from the root view to
\* a scalar: an index for get/get_mut, a field number (from 0) for a record
\* accessor, 0/1/2 for x/y/z.
StepConst(v, s) ==
    CASE v.k = "DynArrayView" -> DynArrayCView_get(v, s)
      [] v.k = "RecView" -> ConstView_field(v, s + 1)
      [] v.k = "Vec3View" -> Vec3View_component(v, s)
      [] OTHER -> Panic("a scalar reference has no accessor")

StepMut(v, s) ==
    CASE v.k = "DynArrayView" -> DynArrayMView_get_mut(v, s)
      [] v.k = "RecView" -> View_field(v, s + 1)
      [] v.k = "Vec3View" -> Vec3ViewMut_component(v, s)
      [] OTHER -> Panic("a scalar reference has no accessor")

RECURSIVE ResolveConst(_, _), ResolveMut(_, _)
ResolveConst(r, path) ==
    IF r.tag # "Ok" \/ path = <<>> THEN r
    ELSE ResolveConst(StepConst(r.val, Head(path)), Tail(path))
ResolveMut(r, path) ==
    IF r.tag # "Ok" \/ path = <<>> THEN r
    ELSE ResolveMut(StepMut(r.val, Head(path)), Tail(path))

\* ---------------------------------------------------------------- view inputs
\* struct PointMass { mass: f64, bias: f64 }
PointMass == Rec(<<F64, F64>>)
\* struct Sample { dyns: Dyn<[f64]>, vec: Vec3<f64> }
Sample == Rec(<<Dyn(F64), Vec3>>)
\* struct Robot { links: Dyn<[Link]>, scalars: Dyn<[f64]> }
Robot == Rec(<<Dyn(Link), Dyn(F64)>>)
\* struct Nested { rows: Dyn<[Dyn<[f64]>]> }
Nested == Rec(<<Dyn(Dyn(F64))>>)

ViewTypes ==
    {PointMass, Link, Sample, Robot, Nested,
     Dyn(F64), Dyn(Vec3), Dyn(PointMass), Dyn(Link),
     Dyn(Dyn(F64)), Dyn(Dyn(Vec3)), Dyn(Dyn(Dyn(F64)))}
ViewCounts == 0..MaxCount
Vals == {1, 2}
\* The indices passed to get / get_mut: in range, just past the end, and one
\* so large that index * span exceeds usize.
ProbeIdx == (0..(MaxCount + 1)) \cup {MaxUsize \div 2 + 1}
\* The (x, y, z) triples passed to set().
Vec3Vals == {<<1, 2, 1>>, <<1, 1, 2>>}

\* The (type, configuration) pairs a buffer is allocated for: the layout is
\* built without error and the buffer has at most MaxCells elements.
ViewCases ==
    UNION {{[ty |-> T, cfg |-> c] :
              c \in {d \in CfgsOver(T, ViewCounts) :
                        /\ RefLen(T, d) <= MaxCells
                        /\ Contig_layout(T, d).tag = "Ok"}}
             : T \in ViewTypes}

\* The type and configuration of the node a sequence of accessor arguments
\* leads to.
RECURSIVE NodeAt(_, _, _)
NodeAt(T, cfg, path) ==
    IF path = <<>> THEN [ty |-> T, cfg |-> cfg]
    ELSE CASE T.k = "Dyn" -> NodeAt(ElemOf(T), cfg.sub[1], Tail(path))
           [] T.k = "Rec" -> NodeAt(T.sub[Head(path) + 1], cfg.sub[Head(path) + 1], Tail(path))
           [] OTHER -> [ty |-> F64, cfg |-> UnitConfig]

\* The in-range accessor paths from a node to its sub-nodes of kind k.
RECURSIVE PathsTo(_, _, _)
PathsTo(T, cfg, k) ==
    (IF T.k = k THEN {<<>>} ELSE {})
    \cup CASE T.k = "Dyn" ->
                {<<i>> \o p : i \in 0..(cfg.len - 1),
                              p \in PathsTo(ElemOf(T), cfg.sub[1], k)}
           [] T.k = "Rec" ->
                UNION {{<<f - 1>> \o p : p \in PathsTo(T.sub[f], cfg.sub[f], k)}
                         : f \in 1..Len(T.sub)}
           [] OTHER -> {}

\* The coordinates of the scalars of a value: every record field, every
\* in-range index, every component of a 3-group.
Coords(T, cfg) ==
    PathsTo(T, cfg, "f64")
    \cup {p \o <<c>> : p \in PathsTo(T, cfg, "Vec3"), c \in 0..2}

NoView == ViewOf("none", F64, <<0, 0>>, 0, DynArgs_default, 0, NoLayout)
NoProbe ==
    [op |-> "none", path |-> <<>>, i |-> 0, outer |-> NoView, tag |-> "none",
     view |-> NoView]

\* layout.cview(&buffer) / layout.view(&mut buffer) on the whole buffer.
RootConst == Contig_view(vw_ty, vw_layout, <<0, Len(buffer)>>)
RootMut == Contig_view_mut(vw_ty, vw_layout, <<0, Len(buffer)>>)

Pristine == (\A c \in DOMAIN written : written[c] = 0) /\ ~vw_fault

\* ---------------------------------------------------------------- view actions
\* let layout = T::layout(&cfg)?; let mut buffer = vec![0.0; layout.len()];
InitView ==
    /\ debug_assertions \in BOOLEAN
    /\ NoCall
    /\ FreshCursor
    /\ NoSizing
    /\ \E c \in ViewCases :
          /\ vw_ty = c.ty
          /\ vw_cfg = c.cfg
          /\ vw_layout = Contig_layout(c.ty, c.cfg).val
          /\ buffer = [a \in 1..Contig_layout(c.ty, c.cfg).val.len |-> 0]
          /\ written = [p \in Coords(c.ty, c.cfg) |-> 0]
    /\ vw_fault = FALSE
    /\ probe = NoProbe

\* *view.<accessors along p>() = v through the mutable views.
WriteCell(p, v) ==
    /\ probe = NoProbe
    /\ p \in DOMAIN written
    /\ LET r == ResolveMut(RootMut, p)
       IN  IF r.tag = "Ok" /\ r.val.k = "ref" /\ r.val.base[1] < Len(buffer)
           THEN /\ buffer' = [buffer EXCEPT ![r.val.base[1] + 1] = v]
                /\ vw_fault' = vw_fault
           ELSE /\ buffer' = buffer
                /\ vw_fault' = TRUE
    /\ written' = [written EXCEPT ![p] = v]
    /\ UNCHANGED <<debug_assertions, cursorVars, sizingVars, callVars, vw_ty, vw_cfg,
                   vw_layout, probe>>

\* view.<accessors along p>().set(x, y, z) on a mutable 3-group view: three
\* indexed stores in order, each bounds-checked.
SetVec3(p, x, y, z) ==
    /\ probe = NoProbe
    /\ p \o <<0>> \in DOMAIN written
    /\ LET r == ResolveMut(RootMut, p)
       IN  IF r.tag = "Ok" /\ r.val.k = "Vec3View"
           THEN LET lo == r.val.base[1]
                    n == IF SliceLen(r.val.base) < 3 THEN SliceLen(r.val.base) ELSE 3
                IN  /\ buffer' = [a \in 1..Len(buffer) |->
                                     IF a - 1 - lo \in 0..(n - 1)
                                     THEN <<x, y, z>>[a - lo]
                                     ELSE buffer[a]]
                    /\ vw_fault' = (vw_fault \/ n < 3)
           ELSE /\ buffer' = buffer
                /\ vw_fault' = TRUE
    /\ written' = [c \in DOMAIN written |->
                      IF c = p \o <<0>> THEN x
                      ELSE IF c = p \o <<1>> THEN y
                      ELSE IF c = p \o <<2>> THEN z
                      ELSE written[c]]
    /\ UNCHANGED <<debug_assertions, cursorVars, sizingVars, callVars, vw_ty, vw_cfg,
                   vw_layout, probe>>

\* <const dynamic-array view at p>.get(i), for any i the caller passes.
ProbeGet(p, i) ==
    /\ Pristine
    /\ p \in PathsTo(vw_ty, vw_cfg, "Dyn")
    /\ LET o == ResolveConst(RootConst, p)
       IN  /\ o.tag = "Ok"
           /\ LET r == DynArrayCView_get(o.val, i)
              IN  probe' = [op |-> "get", path |-> p, i |-> i, outer |-> o.val,
                            tag |-> r.tag,
                            view |-> IF r.tag = "Ok" THEN r.val ELSE NoView]
    /\ UNCHANGED <<debug_assertions, cursorVars, sizingVars, callVars, vw_ty, vw_cfg,
                   vw_layout, buffer, written, vw_fault>>

\* <mutable dynamic-array view at p>.get_mut(i), for any i the caller passes.
ProbeGetMut(p, i) ==
    /\ Pristine
    /\ p \in PathsTo(vw_ty, vw_cfg, "Dyn")
    /\ LET o == ResolveMut(RootMut, p)
       IN  /\ o.tag = "Ok"
           /\ LET r == DynArrayMView_get_mut(o.val, i)
              IN  probe' = [op |-> "get_mut", path |-> p, i |-> i, outer |-> o.val,
                            tag |-> r.tag,
                            view |-> IF r.tag = "Ok" THEN r.val ELSE NoView]
    /\ UNCHANGED <<debug_assertions, cursorVars, sizingVars, callVars, vw_ty, vw_cfg,
                   vw_layout, buffer, written, vw_fault>>

\* The element view of the last get / get_mut is dropped.
DropProbe ==
    /\ probe # NoProbe
    /\ probe' = NoProbe
    /\ UNCHANGED <<debug_assertions, cursorVars, sizingVars, callVars, vw_ty, vw_cfg,
                   vw_layout, buffer, written, vw_fault>>

NextView ==
    \/ \E p \in DOMAIN written : \E v \in Vals : WriteCell(p, v)
    \/ \E p \in PathsTo(vw_ty, vw_cfg, "Vec3") : \E t \in Vec3Vals : SetVec3(p, t[1], t[2], t[3])
    \/ \E p \in PathsTo(vw_ty, vw_cfg, "Dyn") : \E i \in ProbeIdx : ProbeGet(p, i)
    \/ \E p \in PathsTo(vw_ty, vw_cfg, "Dyn") : \E i \in ProbeIdx : ProbeGetMut(p, i)
    \/ DropProbe

SpecView == InitView /\ [][NextView]_vars

\* ---------------------------------------------------------------- view claims
\* The buffer position a coordinate resolves to through the const views
\* (-1 when the accessors do not yield a scalar reference).
AddrConst(p) ==
    CHOOSE a \in {IF r.tag = "Ok" /\ r.val.k = "ref" THEN r.val.base[1] ELSE 0 - 1
                    : r \in {ResolveConst(RootConst, p)}} : TRUE
\* The same through the mutable views.
AddrMut(p) ==
    CHOOSE a \in {IF r.tag = "Ok" /\ r.val.k = "ref" THEN r.val.base[1] ELSE 0 - 1
                    : r \in {ResolveMut(RootMut, p)}} : TRUE
\* The value read through the const views at a coordinate.
ReadsBack(p, v) ==
    \A a \in {AddrConst(p)} : a \in 0..(Len(buffer) - 1) /\ buffer[a + 1] = v
StartsWith(q, p) == Len(q) >= Len(p) /\ SubSeq(q, 1, Len(p)) = p
Probed == probe.op \in {"get", "get_mut"}

\* C6: in a dynamic-array view over a buffer of exactly count * elem_len
\* elements, get(i) and get_mut(i) for every i < count address exactly
\* [i*elem_len, (i+1)*elem_len) of that buffer; the sub-ranges of distinct
\* indices are disjoint and together cover the whole buffer.
C6_ElementSubRanges ==
    (Probed /\ probe.i < probe.outer.count) =>
        \A node \in {NodeAt(vw_ty, vw_cfg, probe.path)} :
            LET o == probe.outer
                elem_len == RefLen(ElemOf(node.ty), node.cfg.sub[1])
                sub(j) == <<o.base[1] + j * elem_len, o.base[1] + (j + 1) * elem_len>>
                idx == 0..(o.count - 1)
            IN  SliceLen(o.base) = o.count * elem_len =>
                  /\ probe.tag = "Ok"
                  /\ probe.view.base = sub(probe.i)
                  /\ \A j \in idx :
                        \A c \in {DynArrayCView_get_slice(o, j)},
                           m \in {DynArrayMView_get_mut_slice(o, j)} :
                            /\ c.tag = "Ok" /\ c.val = sub(j)
                            /\ m.tag = "Ok" /\ m.val = sub(j)
                  /\ \A j, k \in idx :
                        j # k =>
                          RangeSet(DynArrayCView_get_slice(o, j).val)
                            \cap RangeSet(DynArrayMView_get_mut_slice(o, k).val) = {}
                  /\ UNION {RangeSet(DynArrayMView_get_mut_slice(o, j).val) : j \in idx}
                       = RangeSet(o.base)

\* get_mut(1) on Dyn<[Vec3<f64>]> of two elements returned the view over
\* positions 3..5.
C6_Witness ==
    /\ probe.op = "get_mut"
    /\ probe.i = 1
    /\ probe.outer.count = 2
    /\ probe.outer.ty = Vec3
    /\ probe.tag = "Ok"
    /\ probe.view.base = <<3, 6>>

\* C7: after any sequence of writes through the mutable views, every
\* coordinate (record field, in-range array index, field of a record that
\* is an array element, component of a 3-group) reads back through the
\* const views of the same layout over the same buffer the value last
\* written there; no write panics.
C7_WriteReadRoundTrip ==
    /\ ~vw_fault
    /\ \A p \in DOMAIN written : ReadsBack(p, written[p])

\* Robot with one link and two scalars: links[0].mass, links[0].pos.z,
\* scalars[0] and scalars[1] hold written values, not all the same.
C7_Witness ==
    /\ vw_ty = Robot
    /\ vw_cfg = RecCfg(<<DynArrayConfig(1, UnitCfg(Link)), DynArrayConfig(2, UnitConfig)>>)
    /\ written[<<0, 0, 0>>] = 1
    /\ written[<<0, 0, 1, 2>>] = 2
    /\ written[<<1, 1>>] = 2
    /\ written[<<1, 0>>] = 1

\* C8: for every dynamic array of dynamic arrays (outer count R, inner
\* count C) the footprint is R*C times the leaf footprint, get(row) and
\* get_mut(row) report length C for every row, every cell reads back the
\* value written to it, and distinct cells resolve to distinct buffer
\* positions.
C8_NestedArrays ==
    \A p \in PathsTo(vw_ty, vw_cfg, "Dyn") :
        \A node \in {NodeAt(vw_ty, vw_cfg, p)} :
            ElemOf(node.ty).k = "Dyn" =>
                LET R == node.cfg.len
                    C == node.cfg.sub[1].len
                    leaf == RefLen(ElemOf(ElemOf(node.ty)), node.cfg.sub[1].sub[1])
                    cells == {q \in DOMAIN written : StartsWith(q, p)}
                IN  /\ \A L \in {Contig_layout(node.ty, node.cfg)} :
                          L.tag = "Ok" /\ Contig_len(L.val) = R * C * leaf
                    /\ \A oc \in {ResolveConst(RootConst, p)}, om \in {ResolveMut(RootMut, p)} :
                          /\ oc.tag = "Ok" /\ om.tag = "Ok"
                          /\ SliceLen(oc.val.base) = R * C * leaf
                          /\ \A row \in 0..(R - 1) :
                                \A rc \in {DynArrayCView_get(oc.val, row)},
                                   rm \in {DynArrayMView_get_mut(om.val, row)} :
                                    /\ rc.tag = "Ok" /\ DynArrayCView_len(rc.val) = C
                                    /\ rm.tag = "Ok" /\ DynArrayMView_len(rm.val) = C
                    /\ \A q \in cells : ReadsBack(q, written[q])
                    /\ \A q1, q2 \in cells :
                          q1 # q2 => /\ AddrMut(q1) # AddrMut(q2)
                                     /\ AddrConst(q1) # AddrConst(q2)
                                     /\ AddrMut(q1) = AddrConst(q1)

\* A 2 x 2 Dyn<[Dyn<[f64]>]>: cells (0,1) and (1,0) hold different values.
C8_Witness ==
    /\ vw_ty = Dyn(Dyn(F64))
    /\ vw_cfg = DynArrayConfig(2, DynArrayConfig(2, UnitConfig))
    /\ written[<<0, 1>>] = 1
    /\ written[<<1, 0>>] = 2
    /\ written[<<1, 1>>] = 1

\* C10: a dynamic array of count 0 has footprint 0, its views report
\* len() == 0, and get(i) / get_mut(i) returns an element view for no i.
C10_ZeroCountHasNoElement ==
    /\ \A p \in PathsTo(vw_ty, vw_cfg, "Dyn") :
          \A node \in {NodeAt(vw_ty, vw_cfg, p)} :
              node.cfg.len = 0 =>
                  \A oc \in {ResolveConst(RootConst, p)}, om \in {ResolveMut(RootMut, p)} :
                      /\ oc.tag = "Ok" /\ om.tag = "Ok"
                      /\ SliceLen(oc.val.base) = 0
                      /\ DynArrayCView_len(oc.val) = 0
                      /\ DynArrayMView_len(om.val) = 0
    /\ (Probed /\ probe.outer.count = 0) => probe.tag # "Ok"

\* C15: a 3-group occupies 3 elements; after set(a, b, c) through its
\* mutable view, x(), y(), z() of the const view over the same region are
\* a, b, c, held at offsets 0, 1, 2 of the region, and no element outside
\* the region has changed.
C15_Vec3SetThenRead ==
    [][\A p \in PathsTo(vw_ty, vw_cfg, "Vec3") : \A t \in Vec3Vals :
          SetVec3(p, t[1], t[2], t[3]) =>
              \A v \in {ResolveConst(RootConst, p)}, L \in {Contig_layout(Vec3, UnitConfig)} :
                  /\ L.tag = "Ok" /\ Contig_len(L.val) = 3
                  /\ Vec3_dyn_len(DynArgs_default) = Ok(3)
                  /\ ~vw_fault'
                  /\ v.tag = "Ok" /\ v.val.k = "Vec3View" /\ SliceLen(v.val.base) = 3
                  /\ \A c \in 0..2 :
                        \A r \in {Vec3View_component(v.val, c)} :
                            /\ r.tag = "Ok"
                            /\ r.val.base[1] = v.val.base[1] + c
                            /\ buffer'[r.val.base[1] + 1] = t[c + 1]
                  /\ \A a \in 1..Len(buffer) :
                        ~(a - 1 \in RangeSet(v.val.base)) => buffer'[a] = buffer[a]
      ]_vars

\* Element 1 of a two-element Dyn<[Vec3<f64>]> holds (1, 1, 2) and element 0
\* is untouched.
C15_Witness ==
    /\ vw_ty = Dyn(Vec3)
    /\ vw_cfg = DynArrayConfig(2, UnitConfig)
    /\ buffer = <<0, 0, 0, 1, 1, 2>>
    /\ written[<<1, 2>>] = 2

\* C12: get(i) and get_mut(i) with i >= count never return an element view;
\* the call fails.
C12_OutOfRangeIndexFails ==
    (Probed /\ probe.i >= probe.outer.count) => probe.tag # "Ok"

\* The shape of a view: everything but where its slice starts.
ShapeOf(v) == [v EXCEPT !.base = <<0, SliceLen(v.base)>>]

\* C18: every element of a dynamic-array view has the same shape.  The
\* span and the element arguments are those stored in the view when it was
\* built; get(i) and get_mut(i) for every i < count hand out element views
\* of that span, equal to (buffer length / count), and of identical shape.
C18_ElementsAreHomogeneous ==
    (Probed /\ probe.i < probe.outer.count) =>
        LET o == probe.outer
            idx == 0..(o.count - 1)
        IN  /\ probe.tag = "Ok"
            /\ SliceLen(probe.view.base) = o.elem_span
            /\ o.elem_span = SliceLen(o.base) \div o.count
            /\ o.elem_span * o.count = SliceLen(o.base)
            /\ \A j \in idx :
                  \A c \in {DynArrayCView_get(o, j)}, m \in {DynArrayMView_get_mut(o, j)} :
                      /\ c.tag = "Ok" /\ m.tag = "Ok"
                      /\ SliceLen(c.val.base) = o.elem_span
                      /\ SliceLen(m.val.base) = o.elem_span
                      /\ ShapeOf(c.val) = ShapeOf(probe.view)
                      /\ ShapeOf(m.val) = ShapeOf(probe.view)
                      /\ c.val.k = "DynArrayView" =>
                            /\ <<c.val.count>> = o.elem_args.len
                            /\ c.val.count * c.val.elem_span = o.elem_span

\* get(0) on an array of two arrays of two scalars each.
C18_Witness ==
    /\ probe.op = "get"
    /\ probe.i = 0
    /\ probe.tag = "Ok"
    /\ probe.outer.count = 2
    /\ probe.outer.elem_span = 2
    /\ probe.view.k = "DynArrayView"
    /\ probe.view.count = 2

\* The offset at which the node at a coordinate starts in the buffer of a
\* value, from the footprints of the fields and elements before it.
RECURSIVE RefOffset(_, _, _)
RefOffset(T, cfg, path) ==
    IF path = <<>> THEN 0
    ELSE CASE T.k = "Dyn" ->
                Head(path) * RefLen(ElemOf(T), cfg.sub[1])
                + RefOffset(ElemOf(T), cfg.sub[1], Tail(path))
           [] T.k = "Rec" ->
                SumSeq([f \in 1..Head(path) |-> RefLen(T.sub[f], cfg.sub[f])])
                + RefOffset(T.sub[Head(path) + 1], cfg.sub[Head(path) + 1], Tail(path))
           [] OTHER -> Head(path)

\* The buffer positions of the node at a coordinate.
RefRange(path) ==
    LET n == NodeAt(vw_ty, vw_cfg, path)
        o == RefOffset(vw_ty, vw_cfg, path)
    IN  o..(o + RefLen(n.ty, n.cfg) - 1)

\* C19: a write through a mutable view at one coordinate (a record field,
\* an array index, a component of a 3-group) changes only buffer elements
\* inside that coordinate's own range; the elements of every other field
\* and every other index keep their values, whatever was written before.
\* Every element a step changes is the element of a coordinate written in
\* that step, lies inside the range of every field and array element that
\* contains the coordinate, and holds the value written.  WrittenNow is
\* the set of coordinates whose last written value the step has changed.
C19_WritesStayInRange ==
    [][buffer' # buffer =>
        LET WrittenNow == {p \in DOMAIN written : written'[p] # written[p]}
        IN
          /\ Len(buffer') = Len(buffer)
          /\ \A a \in 1..Len(buffer) :
                buffer'[a] # buffer[a] =>
                    \E p \in WrittenNow :
                        /\ RefOffset(vw_ty, vw_cfg, p) = a - 1
                        /\ buffer'[a] = written'[p]
                        /\ \A k \in 0..Len(p) : a - 1 \in RefRange(SubSeq(p, 1, k))
          /\ \A q \in DOMAIN written \ WrittenNow :
                buffer'[RefOffset(vw_ty, vw_cfg, q) + 1]
                    = buffer[RefOffset(vw_ty, vw_cfg, q) + 1]
      ]_vars

\* A Sample with two scalars: both array elements and the 3-group's y hold
\* written values while x and z still hold the initial 0.
C19_Witness ==
    /\ vw_ty = Sample
    /\ buffer = <<1, 2, 0, 2, 0>>
    /\ written[<<0, 0>>] = 1
    /\ written[<<0, 1>>] = 2
    /\ written[<<1, 1>>] = 2

\* ---------------------------------------------------------------- view construction
\* Root views built on a buffer slice of any length up to one past the
\* largest footprint.
AcceptInputs ==
    UNION {{[op |-> o, ty |-> T, cfg |-> c, buflen |-> n] :
              o \in {"view", "view_mut"},
              c \in {d \in CfgsOver(T, ViewCounts) : RefLen(T, d) <= MaxCells},
              n \in 0..(MaxCells + 1)}
             : T \in {F64, Vec3, PointMass, Link, Sample, Robot}}
    \cup {[op |-> o, ty |-> T, cfg |-> UnitConfig, buflen |-> n] :
            o \in {"cview", "mview"}, T \in {F64, Vec3}, n \in 0..(MaxCells + 1)}

CallDone == call_out # <<>>
CallResult == call_out[1]

\* T::view(&layout, &buf[..buflen]) for a layout built from the configuration.
CallView ==
    /\ call_out = <<>>
    /\ call_in.op = "view"
    /\ \A L \in {Contig_layout(call_in.ty, call_in.cfg)} :
          call_out' = <<IF L.tag # "Ok" THEN L
                        ELSE Contig_view(call_in.ty, L.val, <<0, call_in.buflen>>)>>
    /\ UNCHANGED <<debug_assertions, cursorVars, sizingVars, viewVars, call_in>>

\* T::view_mut(&layout, &mut buf[..buflen]).
CallViewMut ==
    /\ call_out = <<>>
    /\ call_in.op = "view_mut"
    /\ \A L \in {Contig_layout(call_in.ty, call_in.cfg)} :
          call_out' = <<IF L.tag # "Ok" THEN L
                        ELSE Contig_view_mut(call_in.ty, L.val, <<0, call_in.buflen>>)>>
    /\ UNCHANGED <<debug_assertions, cursorVars, sizingVars, viewVars, call_in>>

\* <T as DynSpec>::cview(&buf[..buflen], &DynArgs::default()) for a leaf type.
CallCView ==
    /\ call_out = <<>>
    /\ call_in.op = "cview"
    /\ call_out' = <<T_cview(call_in.ty, <<0, call_in.buflen>>, DynArgs_default)>>
    /\ UNCHANGED <<debug_assertions, cursorVars, sizingVars, viewVars, call_in>>

\* <T as DynSpec>::mview(&mut buf[..buflen], &DynArgs::default()) for a leaf type.
CallMView ==
    /\ call_out = <<>>
    /\ call_in.op = "mview"
    /\ call_out' = <<T_mview(call_in.ty, <<0, call_in.buflen>>, DynArgs_default)>>
    /\ UNCHANGED <<debug_assertions, cursorVars, sizingVars, viewVars, call_in>>

\* C11: view / view_mut (and the adapters' cview / mview) accept a slice only
\* when its length is exactly the layout's footprint; a shorter or a longer
\* slice is rejected, for records, the 3-group and scalars alike.
C11_ExactLengthRequired ==
    (/\ CallDone
     /\ call_in.op \in {"view", "view_mut", "cview", "mview"}
     /\ call_in.buflen # RefLen(call_in.ty, call_in.cfg))
        => CallResult.tag # "Ok"

\* ---------------------------------------------------------------- nalgebra adapters
\* What the adapters hand out: an owned matrix (nalgebra copies the slice
\* into its own storage: k = "NaOwned", data in column-major order) or a
\* matrix view borrowing the slice (k = "NaSlice").
NaOwnedOf(rows, cols, data) ==
    [k |-> "NaOwned", rows |-> rows, cols |-> cols, base |-> <<0, 0>>, data |-> data]
NaSliceOf(base, rows, cols) ==
    [k |-> "NaSlice", rows |-> rows, cols |-> cols, base |-> base, data |-> <<>>]

\* The elements of mem a slice covers, in order.
SliceData(mem, buf) == [k \in 1..SliceLen(buf) |-> mem[buf[1] + k]]

\* <NaSVector<F, N> as Spec>::cview / mview: SVector::from_column_slice(buf)
NaSVector_cview(T, mem, buf) ==
    IF SliceLen(buf) # T.dims[1] THEN Panic("from_column_slice: wrong slice length")
    ELSE Ok(NaOwnedOf(T.dims[1], 1, SliceData(mem, buf)))
NaSVector_mview(T, mem, buf) ==
    IF SliceLen(buf) # T.dims[1] THEN Panic("from_column_slice: wrong slice length")
    ELSE Ok(NaOwnedOf(T.dims[1], 1, SliceData(mem, buf)))

\* <NaSMatrix<F, R, C> as Spec>::cview / mview: DMatrix::from_column_slice(R, C, buf)
NaSMatrix_cview(T, mem, buf) ==
    IF SliceLen(buf) # T.dims[1] * T.dims[2]
    THEN Panic("from_column_slice: wrong slice length")
    ELSE Ok(NaOwnedOf(T.dims[1], T.dims[2], SliceData(mem, buf)))
NaSMatrix_mview(T, mem, buf) ==
    IF SliceLen(buf) # T.dims[1] * T.dims[2]
    THEN Panic("from_column_slice: wrong slice length")
    ELSE Ok(NaOwnedOf(T.dims[1], T.dims[2], SliceData(mem, buf)))

\* <NaDVector<F> as DynSpec>::cview / mview: DVectorView(Mut)::from_slice(buf, n)
NaDVector_cview(mem, buf, args) ==
    IF args.len = <<>> THEN Panic("NaDVector requires len")
    ELSE IF SliceLen(buf) < args.len[1] THEN Panic("Matrix slice: input data buffer too small.")
    ELSE Ok(NaSliceOf(buf, args.len[1], 1))
NaDVector_mview(mem, buf, args) ==
    IF args.len = <<>> THEN Panic("NaDVector requires len")
    ELSE IF SliceLen(buf) < args.len[1] THEN Panic("Matrix slice: input data buffer too small.")
    ELSE Ok(NaSliceOf(buf, args.len[1], 1))

\* <NaDMatrix<F> as DynSpec>::cview / mview:
\* DMatrixView(Mut)::from_slice_generic(buf, Dyn(r), Dyn(c))
NaDMatrix_cview(mem, buf, args) ==
    IF args.shape = <<>> THEN Panic("NaDMatrix requires shape")
    ELSE IF SliceLen(buf) < args.shape[1][1] * args.shape[1][2]
         THEN Panic("Matrix slice: input data buffer too small.")
         ELSE Ok(NaSliceOf(buf, args.shape[1][1], args.shape[1][2]))
NaDMatrix_mview(mem, buf, args) ==
    IF args.shape = <<>> THEN Panic("NaDMatrix requires shape")
    ELSE IF SliceLen(buf) < args.shape[1][1] * args.shape[1][2]
         THEN Panic("Matrix slice: input data buffer too small.")
         ELSE Ok(NaSliceOf(buf, args.shape[1][1], args.shape[1][2]))

\* The adapter's footprint (STATIC_LEN is N for NaSVector<F, N> and R * C for
\* NaSMatrix<F, R, C>), const view and mutable view, by adapter.
Na_len(T, args) ==
    CASE T.k = "NaSVector" -> Ok(T.dims[1])
      [] T.k = "NaSMatrix" -> Ok(T.dims[1] * T.dims[2])
      [] OTHER -> T_dyn_len(T, args)
Na_cview(T, mem, buf, args) ==
    CASE T.k = "NaSVector" -> NaSVector_cview(T, mem, buf)
      [] T.k = "NaSMatrix" -> NaSMatrix_cview(T, mem, buf)
      [] T.k = "NaDVector" -> NaDVector_cview(mem, buf, args)
      [] T.k = "NaDMatrix" -> NaDMatrix_cview(mem, buf, args)
Na_mview(T, mem, buf, args) ==
    CASE T.k = "NaSVector" -> NaSVector_mview(T, mem, buf)
      [] T.k = "NaSMatrix" -> NaSMatrix_mview(T, mem, buf)
      [] T.k = "NaDVector" -> NaDVector_mview(mem, buf, args)
      [] T.k = "NaDMatrix" -> NaDMatrix_mview(mem, buf, args)

\* view[(i, j)]: column-major position of the entry, bounds-checked.
Na_index(v, i, j) ==
    IF i >= v.rows \/ j >= v.cols THEN Panic("Matrix index out of bounds.")
    ELSE Ok(i + j * v.rows)

\* view[(i, j)] read through a view, mem being the buffer's contents.
Na_read(v, mem, i, j) ==
    LET k == Na_index(v, i, j)
    IN  IF k.tag # "Ok" THEN k
        ELSE IF v.k = "NaOwned" THEN Ok(v.data[k.val + 1])
        ELSE Ok(mem[v.base[1] + k.val + 1])

\* view[(i, j)] = x: the buffer's contents afterwards.
Na_write(v, mem, i, j, x) ==
    LET k == Na_index(v, i, j)
    IN  IF k.tag # "Ok" THEN k
        ELSE IF v.k = "NaOwned" THEN Ok(mem)
        ELSE Ok([mem EXCEPT ![v.base[1] + k.val + 1] = x])

\* let mut buf = vec![0; len]; mview(&mut buf)[(i, j)] = x; cview(&buf)[(i, j)]
\* The outcome holds the footprint, the value read and the buffer.
NaWriteRead(T, args, i, j, x) ==
    LET n == Na_len(T, args)
    IN  IF n.tag # "Ok" THEN n
        ELSE LET mem0 == [a \in 1..n.val |-> 0]
                 m == Na_mview(T, mem0, <<0, n.val>>, args)
             IN  IF m.tag # "Ok" THEN m
                 ELSE LET mem1 == Na_write(m.val, mem0, i, j, x)
                      IN  IF mem1.tag # "Ok" THEN mem1
                          ELSE LET c == Na_cview(T, mem1.val, <<0, n.val>>, args)
                               IN  IF c.tag # "Ok" THEN c
                                   ELSE LET r == Na_read(c.val, mem1.val, i, j)
                                        IN  IF r.tag # "Ok" THEN r
                                            ELSE Ok([len |-> n.val, read |-> r.val,
                                                     mem |-> mem1.val])

NaInputs ==
    {[op |-> "na_roundtrip", ty |-> NaSVector(n), args |-> DynArgs_default,
      rows |-> n, cols |-> 1, i |-> i, j |-> 0, x |-> x] :
        n \in 1..MaxDim, i \in 0..(MaxDim - 1), x \in Vals}
    \cup {[op |-> "na_roundtrip", ty |-> NaDVector, args |-> with_len(n),
           rows |-> n, cols |-> 1, i |-> i, j |-> 0, x |-> x] :
        n \in 1..MaxDim, i \in 0..(MaxDim - 1), x \in Vals}
    \cup {[op |-> "na_roundtrip", ty |-> NaSMatrix(r, c), args |-> DynArgs_default,
           rows |-> r, cols |-> c, i |-> i, j |-> j, x |-> x] :
        r \in 1..MaxDim, c \in 1..MaxDim, i \in 0..(MaxDim - 1), j \in 0..(MaxDim - 1), x \in Vals}
    \cup {[op |-> "na_roundtrip", ty |-> NaDMatrix, args |-> with_shape(r, c),
           rows |-> r, cols |-> c, i |-> i, j |-> j, x |-> x] :
        r \in 1..MaxDim, c \in 1..MaxDim, i \in 0..(MaxDim - 1), j \in 0..(MaxDim - 1), x \in Vals}

\* Write one entry through the adapter's mutable view, read it back through
\* its const view over the same buffer.
CallNaRoundTrip ==
    /\ call_out = <<>>
    /\ call_in.op = "na_roundtrip"
    /\ call_in.i < call_in.rows /\ call_in.j < call_in.cols
    /\ call_out' = <<NaWriteRead(call_in.ty, call_in.args, call_in.i, call_in.j, call_in.x)>>
    /\ UNCHANGED <<debug_assertions, cursorVars, sizingVars, viewVars, call_in>>

\* C16: for every nalgebra adapter the footprint is the length or
\* rows * cols, and a value written at entry (i, j) through the mutable view
\* is read back at (i, j) through a const view over the same buffer, which
\* the write has changed at that entry only.
C16_NaRoundTrip ==
    (CallDone /\ call_in.op = "na_roundtrip") =>
        /\ CallResult.tag = "Ok"
        /\ CallResult.val.len = call_in.rows * call_in.cols
        /\ CallResult.val.read = call_in.x
        /\ CallResult.val.mem =
             [a \in 1..(call_in.rows * call_in.cols) |->
                 IF a = call_in.i + call_in.j * call_in.rows + 1 THEN call_in.x ELSE 0]

\* ---------------------------------------------------------------- layout reuse
\* The position a coordinate resolves to from a root view result (-1 when
\* the accessors do not yield a scalar reference).
AddrOf(r) == IF r.tag = "Ok" /\ r.val.k = "ref" THEN r.val.base[1] ELSE 0 - 1

\* let l1 = T::layout(&cfg)?; let l2 = T::layout(&cfg)?;
\* let mut a = vec![0; l1.len()]; let mut b = vec![0; l1.len()];
\* *T::view_mut(&l1, &mut a).<p>() = x, the same coordinate being resolved in
\* b and through the const views as well.  Memory holds a at [0, n) and b at
\* [n, 2n).
DoubleBuffer(T, cfg, p, x) ==
    LET l1 == Contig_layout(T, cfg)
        l2 == Contig_layout(T, cfg)
    IN  IF l1.tag # "Ok" THEN l1
        ELSE LET n == Contig_len(l1.val)
                 a == <<0, n>>
                 b == <<n, 2 * n>>
                 ma == AddrOf(ResolveMut(Contig_view_mut(T, l1.val, a), p))
                 mb == AddrOf(ResolveMut(Contig_view_mut(T, l1.val, b), p))
                 ca == AddrOf(ResolveConst(Contig_view(T, l1.val, a), p))
                 cb == AddrOf(ResolveConst(Contig_view(T, l1.val, b), p))
             IN  Ok([l1 |-> l1.val, l2 |-> l2, len |-> n,
                     ma |-> ma, mb |-> mb, ca |-> ca, cb |-> cb,
                     mem |-> [k \in 1..(2 * n) |-> IF k = ma + 1 THEN x ELSE 0]])

DoubleInputs ==
    UNION {{[op |-> "double_buffer", ty |-> c.ty, cfg |-> c.cfg, path |-> p, x |-> x] :
              p \in Coords(c.ty, c.cfg), x \in Vals}
             : c \in ViewCases}

\* Use one layout over two buffers and write through the first one's view.
CallDoubleBuffer ==
    /\ call_out = <<>>
    /\ call_in.op = "double_buffer"
    /\ call_out' = <<DoubleBuffer(call_in.ty, call_in.cfg, call_in.path, call_in.x)>>
    /\ UNCHANGED <<debug_assertions, cursorVars, sizingVars, viewVars, call_in>>

Arr(T, N) == [k |-> "Array", sub |-> <<T>>, dims |-> <<N>>]

\* <T as Spec>::STATIC_LEN; for [T; N] it is N * T::STATIC_LEN, evaluated
\* at compile time (an overflowing product does not compile).
RECURSIVE STATIC_LEN(_)
STATIC_LEN(T) ==
    CASE T.k = "f64" -> f64_STATIC_LEN
      [] T.k = "Vec3" -> Vec3_STATIC_LEN
      [] T.k = "Array" -> T.dims[1] * STATIC_LEN(T.sub[1])

ArrayViewOf(E, N, base) == ViewOf("ArrayView", E, base, N, DynArgs_default, 0, NoLayout)

\* <[T; N] as Spec>::cview and mview
Array_cview(T, buf) ==
    IF debug_assertions /\ SliceLen(buf) # STATIC_LEN(T)
    THEN Panic("assertion failed: buf.len() == Self::STATIC_LEN")
    ELSE Ok(ArrayViewOf(T.sub[1], T.dims[1], buf))
Array_mview(T, buf) ==
    IF debug_assertions /\ SliceLen(buf) # STATIC_LEN(T)
    THEN Panic("assertion failed: buf.len() == Self::STATIC_LEN")
    ELSE Ok(ArrayViewOf(T.sub[1], T.dims[1], buf))

\* <T as Spec>::cview / mview, dispatched on the element type.
Spec_cview(T, buf) ==
    CASE T.k = "f64" -> f64_cview(buf, DynArgs_default)
      [] T.k = "Vec3" -> Vec3_cview(buf, DynArgs_default)
      [] T.k = "Array" -> Array_cview(T, buf)
Spec_mview(T, buf) ==
    CASE T.k = "f64" -> f64_mview(buf, DynArgs_default)
      [] T.k = "Vec3" -> Vec3_mview(buf, DynArgs_default)
      [] T.k = "Array" -> Array_mview(T, buf)

\* ArrayCView::len / ArrayMView::len
ArrayCView_len(v) == v.count
ArrayMView_len(v) == v.count

\* The slice ArrayCView::get(i) / ArrayMView::get_mut(i) hands to the
\* element view: span = T::STATIC_LEN, start = i * span, no check of i.
ArrayCView_get_slice(v, i) ==
    LET span == STATIC_LEN(v.ty)
        start == usize_mul(i, span)
        end == usize_add(start.val, span)
    IN  IF start.tag # "Ok" THEN start
        ELSE IF end.tag # "Ok" THEN end
        ELSE slice_range(v.base, start.val, end.val)
ArrayMView_get_mut_slice(v, i) ==
    LET span == STATIC_LEN(v.ty)
        start == usize_mul(i, span)
        end == usize_add(start.val, span)
    IN  IF start.tag # "Ok" THEN start
        ELSE IF end.tag # "Ok" THEN end
        ELSE slice_range(v.base, start.val, end.val)

\* ArrayCView::get and ArrayMView::get_mut
ArrayCView_get(v, i) ==
    LET s == ArrayCView_get_slice(v, i)
    IN  IF s.tag # "Ok" THEN s ELSE Spec_cview(v.ty, s.val)
ArrayMView_get_mut(v, i) ==
    LET s == ArrayMView_get_mut_slice(v, i)
    IN  IF s.tag # "Ok" THEN s ELSE Spec_mview(v.ty, s.val)

\* The fixed arrays probed: up to MaxCount elements that are scalars,
\* 3-groups or fixed arrays of scalars.
FixedArrayTypes == {Arr(E, n) : E \in {F64, Vec3} \cup {Arr(F64, m) : m \in 0..MaxCount}, n \in 0..MaxCount}
ArrayInputs ==
    {[op |-> o, ty |-> T, i |-> i] :
        o \in {"array_get", "array_get_mut"}, T \in FixedArrayTypes, i \in ProbeIdx}

\* <[T; N]>::cview(&buf).get(i) over a buffer of exactly STATIC_LEN elements.
CallArrayGet ==
    /\ call_out = <<>>
    /\ call_in.op = "array_get"
    /\ \A v \in {Array_cview(call_in.ty, <<0, STATIC_LEN(call_in.ty)>>)} :
          call_out' = <<IF v.tag # "Ok" THEN v ELSE ArrayCView_get(v.val, call_in.i)>>
    /\ UNCHANGED <<debug_assertions, cursorVars, sizingVars, viewVars, call_in>>

\* <[T; N]>::mview(&mut buf).get_mut(i) over such a buffer.
CallArrayGetMut ==
    /\ call_out = <<>>
    /\ call_in.op = "array_get_mut"
    /\ \A v \in {Array_mview(call_in.ty, <<0, STATIC_LEN(call_in.ty)>>)} :
          call_out' = <<IF v.tag # "Ok" THEN v ELSE ArrayMView_get_mut(v.val, call_in.i)>>
    /\ UNCHANGED <<debug_assertions, cursorVars, sizingVars, viewVars, call_in>>

\* C20: the footprint of [T; N] is N * (footprint of T); over a buffer of
\* exactly that length get(i) / get_mut(i) for i < N address exactly
\* [i*span, (i+1)*span), the ranges of distinct indices being disjoint and
\* covering the buffer; for i >= N no view over an element's range is
\* returned.
C20_FixedArrayElements ==
    (CallDone /\ call_in.op \in {"array_get", "array_get_mut"}) =>
        LET T == call_in.ty
            N == T.dims[1]
            span == STATIC_LEN(T.sub[1])
            sub(j) == <<j * span, (j + 1) * span>>
            v == ArrayViewOf(T.sub[1], N, <<0, N * span>>)
            idx == 0..(N - 1)
        IN  /\ STATIC_LEN(T) = N * span
            /\ ArrayCView_len(v) = N /\ ArrayMView_len(v) = N
            /\ call_in.i < N =>
                  /\ CallResult.tag = "Ok"
                  /\ CallResult.val.base = sub(call_in.i)
            /\ \A j \in idx :
                  /\ ArrayCView_get_slice(v, j) = Ok(sub(j))
                  /\ ArrayMView_get_mut_slice(v, j) = Ok(sub(j))
            /\ \A j, k \in idx : j # k => RangeSet(sub(j)) \cap RangeSet(sub(k)) = {}
            /\ UNION {RangeSet(sub(j)) : j \in idx} = RangeSet(<<0, STATIC_LEN(T)>>)
            /\ call_in.i >= N =>
                  ~(CallResult.tag = "Ok" /\ \E j \in idx : CallResult.val.base = sub(j))

\* ---------------------------------------------------------------- inferred and computed span
\* Over one buffer of exactly count * T::dyn_len(elem_args) elements:
\* Dyn::<[T]>::cview(&buf, &with_len(count)) and
\* Dyn::<[T]>::cview_full(&buf, &with_len(count), &elem_args) (mview and
\* mview_full when mutable), then get(i) / get_mut(i) on each.
DynViewPair(E, count, elem_args, i, mutable) ==
    LET n == count * T_dyn_len(E, elem_args).val
        buf == <<0, n>>
        c == IF mutable THEN Dyn_mview(E, buf, with_len(count))
             ELSE Dyn_cview(E, buf, with_len(count))
        f == IF mutable THEN Dyn_mview_full(E, buf, with_len(count), elem_args)
             ELSE Dyn_cview_full(E, buf, with_len(count), elem_args)
        get(v) == IF v.tag # "Ok" THEN v
                  ELSE IF mutable THEN DynArrayMView_get_mut(v.val, i)
                  ELSE DynArrayCView_get(v.val, i)
        slice(v) == IF v.tag # "Ok" THEN v
                    ELSE IF mutable THEN DynArrayMView_get_mut_slice(v.val, i)
                    ELSE DynArrayCView_get_slice(v.val, i)
    IN  Ok([len |-> n, inferred |-> c, full |-> f,
            inferred_slice |-> slice(c), full_slice |-> slice(f),
            inferred_get |-> get(c), full_get |-> get(f)])

\* Element types with the element arguments their configuration hands
\* down, counts from 1, in-range indices; the buffer length exists as a usize.
PairInputs ==
    {x \in [op : {"dyn_views"},
            ty : {F64, Vec3, PointMass, Link, Dyn(F64), Dyn(Vec3)},
            count : 1..MaxCount,
            elem_args : {DynArgs_default} \cup {with_len(m) : m \in 0..MaxCount},
            i : 0..(MaxCount - 1),
            mutable : BOOLEAN] :
        /\ x.i < x.count
        /\ (x.elem_args # DynArgs_default) = (x.ty.k = "Dyn")
        /\ T_dyn_len(x.ty, x.elem_args).tag = "Ok"
        /\ x.count * T_dyn_len(x.ty, x.elem_args).val <= MaxUsize}

\* Build both views over the same buffer and take element i of each.
CallDynViews ==
    /\ call_out = <<>>
    /\ call_in.op = "dyn_views"
    /\ call_out' = <<DynViewPair(call_in.ty, call_in.count, call_in.elem_args,
                                 call_in.i, call_in.mutable)>>
    /\ UNCHANGED <<debug_assertions, cursorVars, sizingVars, viewVars, call_in>>

\* C21: for count > 0 and a buffer of exactly count * T::dyn_len(elem_args)
\* elements, the view built by cview / mview (span inferred as buffer
\* length / count) and the one built by cview_full / mview_full (span
\* computed from elem_args) have the same count and the same element span,
\* and get(i) of both addresses the same buffer sub-range for every
\* i < count.
C21_InferredSpanIsComputedSpan ==
    (CallDone /\ call_in.op = "dyn_views") =>
        \A r \in {CallResult.val} :
            /\ r.inferred.tag = "Ok" /\ r.full.tag = "Ok"
            /\ r.inferred.val.count = call_in.count
            /\ r.full.val.count = call_in.count
            /\ r.inferred.val.elem_span = r.full.val.elem_span
            /\ r.full.val.elem_span * call_in.count = r.len
            /\ r.inferred_slice.tag = "Ok"
            /\ r.inferred_slice = r.full_slice
            /\ r.inferred_slice.val =
                 <<call_in.i * r.full.val.elem_span, (call_in.i + 1) * r.full.val.elem_span>>
            /\ r.full_get.tag = "Ok"
            /\ r.inferred_get.tag = "Ok"
            /\ r.inferred_get.val.base = r.full_get.val.base

\* ---------------------------------------------------------------- calls

InitCalls ==
    /\ debug_assertions \in BOOLEAN
    /\ FreshCursor
    /\ NoSizing
    /\ NoViews
    /\ call_in \in AcceptInputs \cup NaInputs \cup DoubleInputs \cup ArrayInputs
                    \cup PairInputs
    /\ call_out = <<>>

NextCalls == CallView \/ CallViewMut \/ CallCView \/ CallMView \/ CallNaRoundTrip \/ CallDoubleBuffer
        \/ CallArrayGet \/ CallArrayGetMut \/ CallDynViews

SpecCalls == InitCalls /\ [][NextCalls]_vars

====
